---- MODULE Spec2Model ----
(***************************************************************************)
(* Model of docker_mirror.py: DockerMirror.run() = docker_login,           *)
(* preprocess_images (collision detection), process_images (pull, tag,     *)
(* push, rmi for each line of images.txt), as driven by main().            *)
(*                                                                         *)
(* A Python str is modelled as a sequence of one-character strings, so     *)
(* that strip/split/re.search/replace are computed character by character. *)
(***************************************************************************)
EXTENDS Integers, Sequences, FiniteSets, TLC

VARIABLES
    configOk,          \* load_env: all four environment variables are set
    fileExists,        \* Path("images.txt").exists()
    lines,             \* the lines of images.txt, in file order
    pc,                \* position of the run
    pre_i,             \* preprocess_images: index of the next line of its loop
    i,                 \* process_images: index of the current line of its loop
    temp_map,          \* preprocess_images: image_name -> first-seen name_space
    duplicate_images,  \* self.duplicate_images
    calls,             \* every docker command handed to subprocess.run, in order
    failedAt,          \* index in calls of the first failed command other than rmi (0: none)
    rmFailed,          \* some "docker rmi" returned a non-zero code
    interrupted,       \* main() caught KeyboardInterrupt
    summary,           \* the completion lines of process_images/run were logged
    exitCode           \* exit code of the process (NoExit while running)

vars == <<configOk, fileExists, lines, pc, pre_i, i, temp_map, duplicate_images,
          calls, failedAt, rmFailed, interrupted, summary, exitCode>>

----------------------------------------------------------------------------
(* Bounds *)

\* longest images.txt of Spec (every outcome of every docker command)
MaxLines == 3
\* longest images.txt of SpecNames (every docker command succeeds)
MaxEntries == 3

----------------------------------------------------------------------------
(* Python string primitives *)

Whitespace == {" ", "\t"}

\* s[from:] (1-based, inclusive)
Drop(s, from) == SubSeq(s, from, Len(s))

\* index of the first element of s at or after p that is in cs (inside) or not in
\* cs (~inside), 0 if none
RECURSIVE ScanFrom(_, _, _, _)
ScanFrom(s, cs, inside, p) ==
    IF p > Len(s) THEN 0
    ELSE IF (s[p] \in cs) = inside THEN p
    ELSE ScanFrom(s, cs, inside, p + 1)

\* index of the last element of s at or before p that is not in cs, 0 if none
RECURSIVE ScanBack(_, _, _)
ScanBack(s, cs, p) ==
    IF p < 1 THEN 0
    ELSE IF s[p] \notin cs THEN p
    ELSE ScanBack(s, cs, p - 1)

\* index of the first element of s in set cs, 0 if none
FirstIn(s, cs) == ScanFrom(s, cs, TRUE, 1)

\* index of the first element of s not in set cs, 0 if none
FirstNotIn(s, cs) == ScanFrom(s, cs, FALSE, 1)

\* str.strip()
Strip(s) ==
    LET b == FirstNotIn(s, Whitespace)
    IN  IF b = 0 THEN <<>> ELSE SubSeq(s, b, ScanBack(s, Whitespace, Len(s)))

\* str.startswith(prefix)
StartsWith(s, prefix) ==
    Len(s) >= Len(prefix) /\ SubSeq(s, 1, Len(prefix)) = prefix

\* str.split(c) for a one-character separator: empty fields are kept
RECURSIVE Split(_, _)
Split(s, c) ==
    LET p == FirstIn(s, {c})
    IN  IF p = 0 THEN <<s>>
        ELSE <<SubSeq(s, 1, p - 1)>> \o Split(Drop(s, p + 1), c)

\* str.split() without argument: runs of whitespace separate, no empty fields
RECURSIVE SplitWs(_)
SplitWs(s) ==
    LET b == FirstNotIn(s, Whitespace)
    IN  IF b = 0 THEN <<>>
        ELSE LET rest == Drop(s, b)
                 e    == FirstIn(rest, Whitespace)
             IN  IF e = 0 THEN <<rest>>
                 ELSE <<SubSeq(rest, 1, e - 1)>> \o SplitWs(Drop(rest, e))

\* parts[-1]
Last(parts) == parts[Len(parts)]

\* str.replace(a, b) for one-character a and b
Replace(s, a, b) == [p \in 1..Len(s) |-> IF s[p] = a THEN b ELSE s[p]]

\* the maximal run of non-whitespace characters at the head of s: [^\s]+
Word(s) ==
    LET e == FirstIn(s, Whitespace)
    IN  IF e = 0 THEN s ELSE SubSeq(s, 1, e - 1)

----------------------------------------------------------------------------
(* Configuration and literals *)

registry  == <<"R">>           \* ALIYUN_REGISTRY
namespace == <<"N">>           \* ALIYUN_NAME_SPACE
username  == <<"U">>           \* ALIYUN_REGISTRY_USER

PlatformFlag == <<"-", "-", "p", "l", "a", "t", "f", "o", "r", "m">>

NoExit == -1

----------------------------------------------------------------------------
(* Line parsing shared by both passes *)

\* "if not line or line.startswith('#'): continue", line already stripped
Skipped(line) == line = <<>> \/ StartsWith(line, <<"#">>)

\* image = line.split()[-1]
Image(line) == Last(SplitWs(line))

\* the name_space chosen from the '/'-separated parts
NameSpaceOf(parts) ==
    IF Len(parts) = 3 THEN parts[2]
    ELSE IF Len(parts) = 2 THEN parts[1]
    ELSE <<>>

----------------------------------------------------------------------------
(* preprocess_images: what it derives from one stripped line *)

\* variant: the digest is left on the image, as process_images leaves it
PreImageWithDigest(line) == Image(line)

\* image = image.split('@')[0]
PreImage(line) == Split(Image(line), "@")[1]

\* name_space = f"{name_space}_"
PreNameSpace(line) == NameSpaceOf(Split(PreImage(line), "/")) \o <<"_">>

\* image_name = parts[-1].split(':')[0]
PreImageName(line) == Split(Last(Split(PreImage(line), "/")), ":")[1]

----------------------------------------------------------------------------
(* process_images: what it derives from one stripped line *)

\* re.search(r'--platform[ =]([^\s]+)', line): group(1) of the leftmost match, "" if none
Platform(line) ==
    LET n    == Len(PlatformFlag)
        hits == {p \in 1..Len(line) :
                    /\ p + n + 1 <= Len(line)
                    /\ SubSeq(line, p, p + n - 1) = PlatformFlag
                    /\ line[p + n] \in {" ", "="}
                    /\ line[p + n + 1] \notin Whitespace}
    IN  IF hits = {} THEN <<>>
        ELSE LET p == CHOOSE h \in hits : \A q \in hits : h <= q
             IN  Word(Drop(line, p + n + 1))

\* platform_prefix
PlatformPrefix(platform) ==
    IF platform = <<>> THEN <<>> ELSE Replace(platform, "/", "_") \o <<"_">>

\* image_name_tag = image.split('/')[-1]     (the digest is still attached)
ImageNameTag(line) == Last(Split(Image(line), "/"))

\* name_space
NameSpace(line) == NameSpaceOf(Split(Image(line), "/"))

\* image_name = image_name_tag.split(':')[0]
ImageName(line) == Split(ImageNameTag(line), ":")[1]

\* variant: the prefix is built without the "if name_space" test
NameSpacePrefixUntested(line, dups) ==
    IF ImageName(line) \in dups
    THEN NameSpace(line) \o <<"_">>
    ELSE <<>>

\* name_space_prefix
NameSpacePrefix(line, dups) ==
    IF ImageName(line) \in dups /\ NameSpace(line) # <<>>
    THEN NameSpace(line) \o <<"_">>
    ELSE <<>>

\* new_image
NewImage(line, dups) ==
    registry \o <<"/">> \o namespace \o <<"/">>
        \o PlatformPrefix(Platform(line))
        \o NameSpacePrefix(line, dups)
        \o Split(ImageNameTag(line), "@")[1]

----------------------------------------------------------------------------
(* The contents images.txt may have *)

Pf == PlatformFlag

\* lines for the runs in which docker commands may fail
RunLines == {
    <<"n", ":", "1">>,                                          \* n:1
    <<"b", "/", "n", ":", "1">>,                                \* b/n:1
    <<"r", "/", "a", "/", "n", ":", "1">>,                      \* r/a/n:1
    Pf \o <<" ", "x", "/", "y", " ", "n", ":", "1">>,           \* --platform x/y n:1
    <<"#", "c">>,                                               \* a comment line
    <<" ">>                                                     \* a blank line
}

\* lines for the runs that look at the names only
InputLines == {
    <<"n", ":", "1">>,                                          \* n:1
    <<"r", "/", "a", "/", "n", ":", "1">>,                      \* r/a/n:1
    <<"b", "/", "n", ":", "1">>,                                \* b/n:1
    <<"a", "/", "n", "@", "s", ":", "d">>,                      \* a/n@s:d
    <<"b", "/", "n", "@", "s", ":", "d">>,                      \* b/n@s:d
    <<"a", "_", "n", ":", "1">>,                                \* a_n:1
    Pf \o <<" ", "x", "/", "y", " ", "n", ":", "1">>,           \* --platform x/y n:1
    Pf \o <<"=", "x", "/", "y", " ", "b", "/", "n", ":", "1", " ">>,  \* --platform=x/y b/n:1, trailing blank
    Pf \o <<" ", " ", "x", "/", "y", " ", "n", ":", "1">>,      \* --platform  x/y n:1 (two blanks)
    <<" ", "#", "c">>                                           \* an indented comment line
}

\* the sequences over universe of length at most n
RECURSIVE ListsUpTo(_, _)
ListsUpTo(n, universe) ==
    IF n = 0 THEN {<<>>}
    ELSE LET shorter == ListsUpTo(n - 1, universe)
         IN  shorter \cup {Append(l, x) : l \in {s \in shorter : Len(s) = n - 1}, x \in universe}

----------------------------------------------------------------------------
(* The docker commands *)

Cmd(op, ref, opt) == [op |-> op, ref |-> ref, opt |-> opt]

\* ["docker", "login", "-u", username, "--password-stdin", registry]
LoginCmd == Cmd("login", registry, username)
\* ["docker", "pull", ("--platform", platform,) image]
PullCmd(line) == Cmd("pull", Image(line), Platform(line))
\* ["docker", "tag", image, new_image]
TagCmd(line, dups) == Cmd("tag", Image(line), NewImage(line, dups))
\* ["docker", "push", new_image]
PushCmd(line, dups) == Cmd("push", NewImage(line, dups), <<>>)
\* ["docker", "rmi", image]
RmiSrcCmd(line) == Cmd("rmi", Image(line), <<>>)
\* ["docker", "rmi", new_image]
RmiDstCmd(line, dups) == Cmd("rmi", NewImage(line, dups), <<>>)

\* the stripped line the loop of process_images is at
CurLine == Strip(lines[i])

----------------------------------------------------------------------------
(* Initial state: the process is started *)

Start ==
    /\ pc = "load_env"
    /\ pre_i = 1
    /\ i = 1
    /\ temp_map = <<>>
    /\ duplicate_images = {}
    /\ calls = <<>>
    /\ failedAt = 0
    /\ rmFailed = FALSE
    /\ interrupted = FALSE
    /\ summary = FALSE
    /\ exitCode = NoExit

Init ==
    /\ configOk \in BOOLEAN
    /\ fileExists \in BOOLEAN
    /\ lines \in (IF fileExists THEN ListsUpTo(MaxLines, RunLines) ELSE {<<>>})
    /\ Start

\* complete configuration, images.txt present
InitNames ==
    /\ configOk = TRUE
    /\ fileExists = TRUE
    /\ lines \in ListsUpTo(MaxEntries, InputLines)
    /\ Start

----------------------------------------------------------------------------
(* run_command *)

\* sys.exit(code)
SysExit(code) == pc' = "exited" /\ exitCode' = code

\* subprocess.run(cmd, ...) runs to completion with return code 0 (ok) or not
SubprocessRun(cmd, ok) ==
    /\ calls' = Append(calls, cmd)
    /\ failedAt' = IF ~ok /\ cmd.op # "rmi" /\ failedAt = 0 THEN Len(calls) + 1 ELSE failedAt
    /\ rmFailed' = (rmFailed \/ (~ok /\ cmd.op = "rmi"))

\* run_command(cmd) with check=True: CalledProcessError is answered by sys.exit(1);
\* otherwise the caller goes on at pc = next
RunChecked(cmd, ok, next) ==
    /\ SubprocessRun(cmd, ok)
    /\ IF ok THEN pc' = next /\ UNCHANGED exitCode ELSE SysExit(1)

\* run_command(cmd, check=False): nothing is raised, the return code is not looked at
RunUnchecked(cmd, ok, next) ==
    /\ SubprocessRun(cmd, ok)
    /\ pc' = next
    /\ UNCHANGED exitCode

----------------------------------------------------------------------------
(* Actions *)

\* DockerMirror.__init__ / load_env
LoadEnv ==
    /\ pc = "load_env"
    /\ IF configOk
       THEN pc' = "docker_login" /\ UNCHANGED exitCode
       ELSE SysExit(1)
    /\ UNCHANGED <<configOk, fileExists, lines, pre_i, i, temp_map, duplicate_images,
                   calls, failedAt, rmFailed, interrupted, summary>>

\* docker_login
DockerLogin(ok) ==
    /\ pc = "docker_login"
    /\ RunChecked(LoginCmd, ok, "preprocess_images")
    /\ UNCHANGED <<configOk, fileExists, lines, pre_i, i, temp_map, duplicate_images,
                   interrupted, summary>>

\* variant: the loop is entered without the existence check
PreprocessOpenNoCheck ==
    /\ pc = "preprocess_images"
    /\ pc' = "preprocess_loop"
    /\ UNCHANGED <<configOk, fileExists, lines, pre_i, i, temp_map, duplicate_images,
                   calls, failedAt, rmFailed, interrupted, summary, exitCode>>

\* preprocess_images up to the loop: the existence check
PreprocessOpen ==
    /\ pc = "preprocess_images"
    /\ IF fileExists
       THEN pc' = "preprocess_loop" /\ UNCHANGED exitCode
       ELSE SysExit(1)
    /\ UNCHANGED <<configOk, fileExists, lines, pre_i, i, temp_map, duplicate_images,
                   calls, failedAt, rmFailed, interrupted, summary>>

\* preprocess_images: one iteration of "for line in f"
PreprocessLine ==
    /\ pc = "preprocess_loop"
    /\ pre_i <= Len(lines)
    /\ LET line       == Strip(lines[pre_i])
           image_name == PreImageName(line)
           name_space == PreNameSpace(line)
           seen       == {k \in 1..Len(temp_map) : temp_map[k][1] = image_name}
       IN  IF Skipped(line)
           THEN UNCHANGED <<temp_map, duplicate_images>>
           ELSE IF seen # {}
           THEN /\ duplicate_images' =
                      IF \E k \in seen : temp_map[k][2] # name_space
                      THEN duplicate_images \cup {image_name}
                      ELSE duplicate_images
                /\ UNCHANGED temp_map
           ELSE /\ temp_map' = Append(temp_map, <<image_name, name_space>>)
                /\ UNCHANGED duplicate_images
    /\ pre_i' = pre_i + 1
    /\ UNCHANGED <<configOk, fileExists, lines, pc, i, calls, failedAt, rmFailed,
                   interrupted, summary, exitCode>>

\* variant: the detection loop is left after its first iteration
PreprocessEndEarly ==
    /\ pc = "preprocess_loop"
    /\ pre_i > 1 \/ pre_i > Len(lines)
    /\ pc' = "process_loop"
    /\ UNCHANGED <<configOk, fileExists, lines, pre_i, i, temp_map, duplicate_images,
                   calls, failedAt, rmFailed, interrupted, summary, exitCode>>

\* preprocess_images returns, process_images starts
PreprocessEnd ==
    /\ pc = "preprocess_loop"
    /\ pre_i > Len(lines)
    /\ pc' = "process_loop"
    /\ UNCHANGED <<configOk, fileExists, lines, pre_i, i, temp_map, duplicate_images,
                   calls, failedAt, rmFailed, interrupted, summary, exitCode>>

\* process_images: a blank or comment line
ProcessSkip ==
    /\ pc = "process_loop"
    /\ i <= Len(lines)
    /\ Skipped(CurLine)
    /\ i' = i + 1
    /\ UNCHANGED <<configOk, fileExists, lines, pc, pre_i, temp_map, duplicate_images,
                   calls, failedAt, rmFailed, interrupted, summary, exitCode>>

\* process_images: docker pull
Pull(ok) ==
    /\ pc = "process_loop"
    /\ i <= Len(lines)
    /\ ~Skipped(CurLine)
    /\ RunChecked(PullCmd(CurLine), ok, "tag")
    /\ UNCHANGED <<configOk, fileExists, lines, pre_i, i, temp_map, duplicate_images,
                   interrupted, summary>>

\* process_images: docker tag
Tag(ok) ==
    /\ pc = "tag"
    /\ RunChecked(TagCmd(CurLine, duplicate_images), ok, "push")
    /\ UNCHANGED <<configOk, fileExists, lines, pre_i, i, temp_map, duplicate_images,
                   interrupted, summary>>

\* variant: the return code of docker push is not checked
PushUnchecked(ok) ==
    /\ pc = "push"
    /\ RunUnchecked(PushCmd(CurLine, duplicate_images), ok, "rmi_src")
    /\ UNCHANGED <<configOk, fileExists, lines, pre_i, i, temp_map, duplicate_images,
                   interrupted, summary>>

\* variant: after the push only the destination image is removed
PushThenRmiDst(ok) ==
    /\ pc = "push"
    /\ RunChecked(PushCmd(CurLine, duplicate_images), ok, "rmi_dst")
    /\ UNCHANGED <<configOk, fileExists, lines, pre_i, i, temp_map, duplicate_images,
                   interrupted, summary>>

\* process_images: docker push
Push(ok) ==
    /\ pc = "push"
    /\ RunChecked(PushCmd(CurLine, duplicate_images), ok, "rmi_src")
    /\ UNCHANGED <<configOk, fileExists, lines, pre_i, i, temp_map, duplicate_images,
                   interrupted, summary>>

\* variant: docker rmi run with check=True
RmiSrcChecked(ok) ==
    /\ pc = "rmi_src"
    /\ RunChecked(RmiSrcCmd(CurLine), ok, "rmi_dst")
    /\ UNCHANGED <<configOk, fileExists, lines, pre_i, i, temp_map, duplicate_images,
                   interrupted, summary>>

\* process_images: docker rmi image
RmiSrc(ok) ==
    /\ pc = "rmi_src"
    /\ RunUnchecked(RmiSrcCmd(CurLine), ok, "rmi_dst")
    /\ UNCHANGED <<configOk, fileExists, lines, pre_i, i, temp_map, duplicate_images,
                   interrupted, summary>>

\* process_images: docker rmi new_image, then the next line
RmiDst(ok) ==
    /\ pc = "rmi_dst"
    /\ RunUnchecked(RmiDstCmd(CurLine, duplicate_images), ok, "process_loop")
    /\ i' = i + 1
    /\ UNCHANGED <<configOk, fileExists, lines, pre_i, temp_map, duplicate_images,
                   interrupted, summary>>

\* process_images and run return, main returns: exit code 0
ProcessEnd ==
    /\ pc = "process_loop"
    /\ i > Len(lines)
    /\ summary' = TRUE
    /\ SysExit(0)
    /\ UNCHANGED <<configOk, fileExists, lines, pre_i, i, temp_map, duplicate_images,
                   calls, failedAt, rmFailed, interrupted>>

\* the docker command the process is blocked in
InFlight ==
    CASE pc = "docker_login" -> LoginCmd
      [] pc = "process_loop" -> PullCmd(CurLine)
      [] pc = "tag"          -> TagCmd(CurLine, duplicate_images)
      [] pc = "push"         -> PushCmd(CurLine, duplicate_images)
      [] pc = "rmi_src"      -> RmiSrcCmd(CurLine)
      [] pc = "rmi_dst"      -> RmiDstCmd(CurLine, duplicate_images)

\* main: KeyboardInterrupt while waiting for a docker command, sys.exit(0)
KeyboardInterrupt ==
    /\ \/ pc \in {"docker_login", "tag", "push", "rmi_src", "rmi_dst"}
       \/ pc = "process_loop" /\ i <= Len(lines) /\ ~Skipped(CurLine)
    /\ calls' = Append(calls, InFlight)
    /\ interrupted' = TRUE
    /\ SysExit(0)
    /\ UNCHANGED <<configOk, fileExists, lines, pre_i, i, temp_map, duplicate_images,
                   failedAt, rmFailed, summary>>

Next ==
    \/ LoadEnv
    \/ \E ok \in BOOLEAN : DockerLogin(ok)
    \/ PreprocessOpen
    \/ PreprocessLine
    \/ PreprocessEnd
    \/ ProcessSkip
    \/ \E ok \in BOOLEAN : Pull(ok)
    \/ \E ok \in BOOLEAN : Tag(ok)
    \/ \E ok \in BOOLEAN : Push(ok)
    \/ \E ok \in BOOLEAN : RmiSrc(ok)
    \/ \E ok \in BOOLEAN : RmiDst(ok)
    \/ ProcessEnd
    \/ KeyboardInterrupt

Spec == Init /\ [][Next]_vars

\* the runs in which every docker command returns 0 and nobody interrupts
NextNames ==
    \/ LoadEnv
    \/ DockerLogin(TRUE)
    \/ PreprocessOpen
    \/ PreprocessLine
    \/ PreprocessEnd
    \/ ProcessSkip
    \/ Pull(TRUE)
    \/ Tag(TRUE)
    \/ Push(TRUE)
    \/ RmiSrc(TRUE)
    \/ RmiDst(TRUE)
    \/ ProcessEnd

SpecNames == InitNames /\ [][NextNames]_vars

----------------------------------------------------------------------------
(* Vocabulary of the properties: the attributes of an entry as the data     *)
(* model of the specification defines them, and the place of each entry's   *)
(* commands in calls. None of this is read by the actions above.            *)

\* the non-blank, non-comment lines, in input order
Entries == SelectSeq([k \in 1..Len(lines) |-> Strip(lines[k])], LAMBDA l : ~Skipped(l))

\* source_namespace, base_name and :tag of entry e:
\*   ref   the image reference (last token of the line) without its @digest suffix
\*   last  the final path segment, with :tag
\*   base  base_name: the final path segment without :tag and without @digest
\*   tag   ":tag" as carried into the destination, empty if the reference has no tag
\*   ns    source_namespace: the segment before the final one for 2 or 3 segments, else empty
AttributesOf(e) ==
    LET ref  == Split(Image(e), "@")[1]
        segs == Split(ref, "/")
        last == segs[Len(segs)]
        base == Split(last, ":")[1]
    IN  [ns   |-> IF Len(segs) \in {2, 3} THEN segs[Len(segs) - 1] ELSE <<>>,
         base |-> base,
         tag  |-> Drop(last, Len(base) + 1)]

\* the platform named by the first "--platform v" or "--platform=v" token before the
\* reference, empty if there is none
TokenPlatform(e) ==
    LET toks == SplitWs(e)
        n    == Len(toks)
        sep  == {j \in 1..(n - 2) : toks[j] = PlatformFlag}
        eq   == {j \in 1..(n - 1) : /\ StartsWith(toks[j], PlatformFlag \o <<"=">>)
                                    /\ Len(toks[j]) > Len(PlatformFlag) + 1}
        all  == sep \cup eq
    IN  IF all = {} THEN <<>>
        ELSE LET j == CHOOSE x \in all : \A y \in all : x <= y
             IN  IF j \in sep THEN toks[j + 1] ELSE Drop(toks[j], Len(PlatformFlag) + 2)

\* source_namespace, base_name and :tag of every entry of es, in order
RECURSIVE Attributes(_)
Attributes(es) ==
    IF es = <<>> THEN <<>>
    ELSE <<AttributesOf(Head(es))>> \o Attributes(Tail(es))

\* the platform of every entry of es, in order
RECURSIVE Platforms(_)
Platforms(es) ==
    IF es = <<>> THEN <<>> ELSE <<TokenPlatform(Head(es))>> \o Platforms(Tail(es))

\* "{registry}/{namespace}/"
DestRoot == registry \o <<"/">> \o namespace \o <<"/">>
\* "{platform_with_slashes_as_underscores}_", empty without platform
PrefixOfPlatform(v) ==
    IF v = <<>> THEN <<>>
    ELSE [p \in 1..Len(v) |-> IF v[p] = "/" THEN "_" ELSE v[p]] \o <<"_">>

\* calls[1] is the login; entry k owns calls[5k-3 .. 5k+1]: pull, tag, push, rmi, rmi
PullAt(k) == 5 * k - 3
TagAt(k)  == 5 * k - 2
\* the entries among the first n whose pull / tag has been issued
Pulled(n) == {k \in 1..n : PullAt(k) <= Len(calls)}
Tagged(n) == {k \in 1..n : TagAt(k) <= Len(calls)}
\* the platform handed to pull and the destination handed to tag for entry k
PulledPlatform(k) == calls[PullAt(k)].opt
Dest(k) == calls[TagAt(k)].opt

\* the destination of an entry of attributes a, pulled with platform v, with / without
\* the collision prefix
DestWithCollisionPrefix(a, v) ==
    DestRoot \o PrefixOfPlatform(v) \o a.ns \o <<"_">> \o a.base \o a.tag
DestWithoutCollisionPrefix(a, v) ==
    DestRoot \o PrefixOfPlatform(v) \o a.base \o a.tag

Exited == pc = "exited"

----------------------------------------------------------------------------
(* C1 as stated: when images.txt is missing and the configuration is         *)
(* complete, no docker command at all (login included) is ever issued and    *)
(* the run ends with exit code 1.                                            *)
Orig_C1 ==
    (configOk /\ ~fileExists) =>
        /\ calls = <<>>
        /\ Exited => exitCode = 1

(* C1 amended: when images.txt is missing and the configuration is complete, *)
(* the login is the only docker command ever issued (the existence check     *)
(* comes after it): no pull, tag, push or rmi is issued, the completion      *)
(* summary is not logged, and the run ends with exit code 1 unless the       *)
(* operator interrupts the login (exit code 0).                              *)
Thm_C1 ==
    (configOk /\ ~fileExists) =>
        /\ Len(calls) <= 1
        /\ \A j \in 1..Len(calls) : calls[j] = LoginCmd
        /\ ~summary
        /\ Exited => (exitCode = IF interrupted THEN 0 ELSE 1)

\* the login succeeded, then preprocess_images found no images.txt and exited
Witness_C1 ==
    /\ configOk /\ ~fileExists
    /\ Exited /\ exitCode = 1
    /\ calls = <<LoginCmd>> /\ failedAt = 0 /\ ~interrupted

----------------------------------------------------------------------------
(* C4: once a pull, tag or push has failed, the process has exited with code *)
(* 1, the failed command is the last docker command ever issued, the         *)
(* completion summary is not logged, and nothing changes afterwards.         *)
FatalFailure == failedAt # 0 /\ calls[failedAt].op \in {"pull", "tag", "push"}

Thm_C4 ==
    /\ [](FatalFailure =>
            /\ Exited /\ exitCode = 1
            /\ Len(calls) = failedAt
            /\ ~summary)
    /\ [][FatalFailure => UNCHANGED vars]_vars

\* the push of the second of three entries failed
Witness_C4 ==
    /\ Len(Entries) = 3
    /\ FatalFailure
    /\ failedAt = TagAt(2) + 1
    /\ calls[failedAt].op = "push"
    /\ Exited

----------------------------------------------------------------------------
(* C5: a failing rmi is never fatal. The step that runs an rmi leaves the    *)
(* process running at the next command whatever the return code (rmi of the  *)
(* destination after rmi of the source, the next line after rmi of the       *)
(* destination); and a run that has ended without interrupt and in which no  *)
(* command other than rmi failed has exit code 0, logged the summary and     *)
(* issued pull, tag, push and both rmi for every entry.                      *)
RmiStep == pc \in {"rmi_src", "rmi_dst"} /\ ~interrupted'

Thm_C5 ==
    /\ [][RmiStep =>
            /\ exitCode' = NoExit
            /\ pc' = (IF pc = "rmi_src" THEN "rmi_dst" ELSE "process_loop")
            /\ failedAt' = failedAt]_vars
    /\ []((Exited /\ configOk /\ fileExists /\ failedAt = 0 /\ ~interrupted) =>
            /\ exitCode = 0
            /\ summary
            /\ Len(calls) = 1 + 5 * Len(Entries)
            /\ \A k \in 1..Len(Entries) :
                  /\ calls[PullAt(k)].op = "pull"
                  /\ calls[PullAt(k) + 1].op = "tag"
                  /\ calls[PullAt(k) + 2].op = "push")

\* an rmi of the first entry failed and the second entry has been pulled
Witness_C5 ==
    /\ rmFailed
    /\ pc = "tag"
    /\ Len(calls) = PullAt(2)
    /\ exitCode = NoExit

----------------------------------------------------------------------------
(* C6: the docker commands after the login come in blocks of five, the k-th  *)
(* block being pull(source), tag(source, destination), push(destination),    *)
(* rmi(source), rmi(destination) of the k-th entry of the input, so that no  *)
(* command of entry k+1 precedes the second rmi of entry k.                  *)
Thm_C6 ==
    LET es == Entries
    IN  \A j \in 2..Len(calls) :
        LET k    == ((j - 2) \div 5) + 1
            step == (j - 2) % 5
            base == PullAt(k)
        IN  /\ k <= Len(es)
            /\ calls[j].op = <<"pull", "tag", "push", "rmi", "rmi">>[step + 1]
            /\ calls[base].op = "pull" /\ calls[base].ref = Image(es[k])
            /\ step >= 1 => calls[base + 1].ref = calls[base].ref
            /\ step >= 2 => calls[base + 2].ref = calls[base + 1].opt
            /\ step >= 3 => calls[base + 3].ref = calls[base].ref
            /\ step >= 4 => calls[base + 4].ref = calls[base + 2].ref

\* three entries transferred completely
Witness_C6 ==
    /\ Len(Entries) = 3
    /\ Len(calls) = 16
    /\ summary

----------------------------------------------------------------------------
(* C9: in a run with complete configuration, once docker_login is over there *)
(* is exactly one login command, the first command; no pass starts unless it *)
(* succeeded; a pull, tag or push is issued only when preprocess_images has  *)
(* iterated over every line; and no step of process_images changes           *)
(* duplicate_images.                                                         *)
PassStarted == pc \in {"preprocess_loop", "process_loop", "tag", "push", "rmi_src", "rmi_dst"}
                 \/ pre_i > 1 \/ Len(calls) > 1 \/ summary

Thm_C9 ==
    /\ []((configOk /\ pc \notin {"load_env", "docker_login"}) =>
            /\ Len(calls) >= 1
            /\ {j \in 1..Len(calls) : calls[j].op = "login"} = {1})
    /\ [](PassStarted => (calls # <<>> /\ calls[1] = LoginCmd /\ failedAt # 1))
    /\ []((\E j \in 1..Len(calls) : calls[j].op \in {"pull", "tag", "push"})
            => pre_i > Len(lines))
    /\ [][(pc \in {"process_loop", "tag", "push", "rmi_src", "rmi_dst"})
            => duplicate_images' = duplicate_images]_vars

\* a colliding name was detected over three lines, and the transfer pass is pushing
Witness_C9 ==
    /\ Len(Entries) = 3
    /\ duplicate_images # {}
    /\ pc = "push"
    /\ pre_i = Len(lines) + 1

----------------------------------------------------------------------------
(* C2 as stated: any two entries with the same base_name and different       *)
(* non-empty source_namespace values are both tagged with a destination that *)
(* carries the "{source_namespace}_" collision prefix, and the two prefixes  *)
(* differ.                                                                   *)
Orig_C2 ==
    LET es == Entries
        at == Attributes(es)
    IN  \A j \in Tagged(Len(es)) : \A k \in Tagged(Len(es)) :
            ( /\ j # k
              /\ at[j].base = at[k].base
              /\ at[j].ns # <<>>
              /\ at[k].ns # <<>>
              /\ at[j].ns # at[k].ns )
            => /\ Dest(j) = DestWithCollisionPrefix(at[j], PulledPlatform(j))
               /\ Dest(k) = DestWithCollisionPrefix(at[k], PulledPlatform(k))
               /\ at[j].ns \o <<"_">> # at[k].ns \o <<"_">>

----------------------------------------------------------------------------
(* C3: once preprocess_images has iterated over every line,                  *)
(* duplicate_images is exactly the set of base names that two entries of the *)
(* input share while differing in source_namespace (the empty namespace      *)
(* being a value like any other), whatever the order of the lines.           *)
CollidingBaseNames(at) ==
    {at[j].base : j \in {j \in DOMAIN at :
                            \E k \in DOMAIN at : at[k].base = at[j].base /\ at[k].ns # at[j].ns}}

Thm_C3 ==
    pre_i > Len(lines) =>
        duplicate_images = CollidingBaseNames(Attributes(Entries))

\* three different lines of one base name, the third the first to differ from the
\* first-seen namespace, scanned completely
Witness_C3 ==
    /\ pc = "process_loop"
    /\ pre_i > Len(lines)
    /\ LET es == Entries
           at == Attributes(es)
       IN  /\ Len(es) = 3
           /\ es[1] # es[2]
           /\ at[1].base = at[2].base /\ at[2].base = at[3].base
           /\ at[1].ns = at[2].ns
           /\ at[3].ns # at[1].ns
           /\ duplicate_images = {at[1].base}

----------------------------------------------------------------------------
(* C7: an entry whose source_namespace is empty, or whose base_name is       *)
(* shared only by entries of the identical source_namespace, is tagged with  *)
(* a destination without collision prefix:                                   *)
(* {registry}/{namespace}/{platform_prefix}{base_name}{:tag}.                *)
Thm_C7 ==
    LET es == Entries
        at == Attributes(es)
    IN  \A k \in Tagged(Len(es)) :
            ( \/ at[k].ns = <<>>
              \/ \A j \in DOMAIN at : at[j].base = at[k].base => at[j].ns = at[k].ns )
            => Dest(k) = DestWithoutCollisionPrefix(at[k], PulledPlatform(k))

\* two different references of one base name and one non-empty namespace have both
\* been tagged
Witness_C7 ==
    LET es == Entries
        at == Attributes(es)
    IN  \E j \in Tagged(Len(es)) : \E k \in Tagged(Len(es)) :
            /\ es[j] # es[k]
            /\ at[j].base = at[k].base
            /\ at[j].ns # <<>>
            /\ at[j].ns = at[k].ns
            /\ duplicate_images = {}

----------------------------------------------------------------------------
(* C8 as stated: with v the value of the first "--platform v" or             *)
(* "--platform=v" token before the reference of a whitespace-tokenized line  *)
(* (no platform if there is none), pull is invoked with platform v and the   *)
(* destination name starts with v, slashes as underscores, and "_"; without  *)
(* such a token pull has no platform and the destination no platform prefix. *)
Orig_C8 ==
    LET es == Entries
        at == Attributes(es)
        pl == Platforms(es)
    IN  \A k \in Pulled(Len(es)) :
            /\ PulledPlatform(k) = pl[k]
            /\ k \in Tagged(Len(es)) =>
                  IF pl[k] # <<>>
                  THEN StartsWith(Dest(k), DestRoot \o PrefixOfPlatform(pl[k]))
                  ELSE Dest(k) \in { DestWithoutCollisionPrefix(at[k], <<>>),
                                     DestWithCollisionPrefix(at[k], <<>>) }

----------------------------------------------------------------------------
(* C10 as stated: two entries that differ in platform, source_namespace,     *)
(* base_name or tag are never tagged with the same destination.              *)
Orig_C10 ==
    LET es == Entries
        at == Attributes(es)
        pl == Platforms(es)
    IN  \A j \in Tagged(Len(es)) : \A k \in Tagged(Len(es)) :
            (at[j] # at[k] \/ pl[j] # pl[k]) => Dest(j) # Dest(k)

====
